---- MODULE Spec2Model ----
(***************************************************************************)
(* Model of sidebar.py: the pid-file toggle of the __main__ block and the  *)
(* request bridge of AssistantSidebar / LlamaWorker / ask_phi.             *)
(*                                                                         *)
(* Text is modelled as a sequence of one-character strings.                *)
(***************************************************************************)
EXTENDS Integers, Sequences, FiniteSets, TLC

(***************************************************************************)
(* Bounds of the model.                                                    *)
(***************************************************************************)
\* number of launches of the program (each launch is one process)
NumLaunches == 3

\* number of prompts the window accepts in one run of the model
MaxRequests == 2

\* number of prompts the window accepts in a run that tries every tool result
MaxClassified == 1

(***************************************************************************)
(* Constants of the program.                                               *)
(***************************************************************************)
\* ask_phi: if len(prompt) > 1000
PromptLimit == 1000

\* ask_phi: error_msg[:200], str(e)[:200]
ErrorLimit == 200

(***************************************************************************)
(* Text helpers (Python str methods used by the program).                  *)
(***************************************************************************)
Digits == <<"0", "1", "2", "3", "4", "5", "6", "7", "8", "9">>

DigitChar(d) == Digits[d + 1]

DigitVal(c) == CHOOSE d \in 0..9 : Digits[d + 1] = c

IsDigit(c) == \E d \in 0..9 : Digits[d + 1] = c

IsSpace(c) == c \in {" ", "\n", "\t"}

\* str.strip(): drop the leading and the trailing whitespace
Strip(s) ==
    IF \A i \in 1..Len(s) : IsSpace(s[i])
    THEN << >>
    ELSE LET lo == CHOOSE i \in 1..Len(s) :
                      /\ ~IsSpace(s[i])
                      /\ \A j \in 1..(i - 1) : IsSpace(s[j])
             hi == CHOOSE i \in 1..Len(s) :
                      /\ ~IsSpace(s[i])
                      /\ \A j \in (i + 1)..Len(s) : IsSpace(s[j])
         IN  SubSeq(s, lo, hi)

\* s[:n]
Take(s, n) == SubSeq(s, 1, IF Len(s) < n THEN Len(s) ELSE n)

\* the characters of the model and their UTF-8 bytes; "U+00E9" stands for the
\* one character e-acute, which takes two bytes
Utf8(c) ==
    CASE c = "\t" -> <<9>>
      [] c = "\n" -> <<10>>
      [] c = " " -> <<32>>
      [] c = "." -> <<46>>
      [] c = "a" -> <<97>>
      [] c = "b" -> <<98>>
      [] c = "c" -> <<99>>
      [] c = "h" -> <<104>>
      [] c = "i" -> <<105>>
      [] c = "U+00E9" -> <<195, 169>>

Chars == {"\t", "\n", " ", ".", "a", "b", "c", "h", "i", "U+00E9"}

\* str.encode('utf-8'); the text is split in halves to keep the evaluation
\* shallow on long texts
RECURSIVE Encode(_)
Encode(s) ==
    IF Len(s) = 0 THEN << >>
    ELSE IF Len(s) = 1 THEN Utf8(s[1])
    ELSE LET h == Len(s) \div 2
         IN  Encode(SubSeq(s, 1, h)) \o Encode(SubSeq(s, h + 1, Len(s)))

\* a byte that continues a character begun by the byte before it
IsContinuation(x) == x \in 128..191

\* the character that starts at place i of the bytes b, if there is one
StartsChar(b, i) ==
    \/ \E c \in Chars : Utf8(c) = <<b[i]>>
    \/ i < Len(b) /\ \E c \in Chars : Utf8(c) = <<b[i], b[i + 1]>>

CharAt(b, i) ==
    IF \E c \in Chars : Utf8(c) = <<b[i]>>
    THEN CHOOSE c \in Chars : Utf8(c) = <<b[i]>>
    ELSE CHOOSE c \in Chars : Utf8(c) = <<b[i], b[i + 1]>>

\* bytes.decode('utf-8') raises UnicodeDecodeError: some byte neither starts
\* a character nor continues the one before it
RaisesDecodeError(b) ==
    \E i \in 1..Len(b) :
        IF IsContinuation(b[i])
        THEN i = 1 \/ IsContinuation(b[i - 1]) \/ ~StartsChar(b, i - 1)
        ELSE ~StartsChar(b, i)

\* bytes.decode('utf-8') of well-formed bytes: one character per start
\* byte; the bytes are split between two characters near the middle to keep
\* the evaluation shallow on long texts
RECURSIVE Decode(_)
Decode(b) ==
    IF Len(b) = 0 THEN << >>
    ELSE IF Len(b) = 1 \/ (Len(b) = 2 /\ IsContinuation(b[2])) THEN <<CharAt(b, 1)>>
    ELSE LET h == Len(b) \div 2
             cut == IF IsContinuation(b[h + 1]) THEN h + 1 ELSE h
         IN  Decode(SubSeq(b, 1, cut)) \o Decode(SubSeq(b, cut + 1, Len(b)))

(***************************************************************************)
(* The pid file: str(os.getpid()) when written, int(f.read().strip()) when *)
(* read.                                                                   *)
(***************************************************************************)
\* a conversion that keeps the last digit only
FormatPid_LastDigit(n) == <<DigitChar(n % 10)>>

RECURSIVE FormatPid(_)
FormatPid(n) ==
    IF n < 10 THEN <<DigitChar(n)>>
    ELSE FormatPid(n \div 10) \o <<DigitChar(n % 10)>>

RECURSIVE DecimalValue(_)
DecimalValue(t) ==
    IF Len(t) = 0 THEN 0
    ELSE 10 * DecimalValue(SubSeq(t, 1, Len(t) - 1)) + DigitVal(t[Len(t)])

\* int(text) raises ValueError: the stripped text is empty or has a non-digit
RaisesValueError(text) ==
    LET t == Strip(text)
    IN  t = << >> \/ \E i \in 1..Len(t) : ~IsDigit(t[i])

\* a conversion that reads the first digit only
ParseInt_FirstDigit(text) == DigitVal(Strip(text)[1])

ParseInt(text) == DecimalValue(Strip(text))

\* process ids of the launches; they have one, two and three digits
PidOf(i) == 9 * i * i + 7 * i + 5

Pids == {PidOf(i) : i \in 1..NumLaunches}

\* the process id of a process that died before any launch of the model
StalePid == PidOf(0)

\* the file does not exist (a value that is no text of the file)
Absent == <<"Absent">>

NoPid == -1

NoText == <<"NoText">>

\* the steps of the startup block, from the launch to sys.exit or app.exec_
StartupPcs == {"check", "read", "kill", "remove", "exit", "write"}

\* what /tmp/ai_assistant.pid may hold before the first launch: nothing, an
\* empty file, text that is no number, the id of a dead process
InitialLocks ==
    {Absent, << >>, <<"p", "i", "d">>, <<"1", "x">>,
     FormatPid(StalePid), <<" ">> \o FormatPid(StalePid) \o <<"\n">>}

VARIABLES
    lock,       \* content of the pid file, or Absent
    pc,         \* pc[p]: where process p is in the __main__ block
    old_pid,    \* old_pid[p]: the local variable of the __main__ block
    outcome,    \* outcome[p]: "none", "Proceed" or "ExitNow"
    killCalls,  \* the os.kill calls made so far, and whether each one succeeded
    sigterm,    \* processes with a SIGTERM pending
    readText,   \* readText[p]: what f.read() gave p (Absent: open failed)
    log,        \* the launches whose startup block has ended, in that order
    \* the window of one running instance (AssistantSidebar)
    input_box,      \* text of the QLineEdit
    processing,     \* self.processing
    worker_thread,  \* self.worker_thread: None or the index of a worker
    send_enabled,   \* send_btn.isEnabled()
    send_text,      \* send_btn.text()
    chat_area,      \* the blocks of the chat log
    workers,        \* the LlamaWorker objects created so far
    events,         \* response_ready emissions queued for the UI thread
    toolCalls,      \* the subprocess.run calls made so far
    completions,    \* the responses handle_response has rendered
    accepted,       \* the texts of the input box that handle_input accepted
    lastCall,       \* the handler the UI thread ran last, and how it ended
    tick            \* flips at every handler call

toggleVars == <<lock, pc, old_pid, outcome, killCalls, sigterm, readText, log>>

uiVars == <<input_box, processing, worker_thread, send_enabled, send_text, chat_area>>

bridgeVars == <<uiVars, workers, events, toolCalls, completions, accepted, lastCall, tick>>

vars == <<toggleVars, bridgeVars>>

\* a process exists from its launch until it exits or is terminated
Alive(q) == q \in Pids /\ pc[q] \notin {"off", "exited", "killed"}

HasWindow(q) == q \in Pids /\ pc[q] \in {"running", "closing"}

None == 0

\* AssistantSidebar.__init__: the state of a window just constructed
InitWindow ==
    /\ input_box = << >>
    /\ processing = FALSE
    /\ worker_thread = None
    /\ send_enabled = TRUE
    /\ send_text = "Send"
    /\ chat_area = <<[kind |-> "Welcome", text |-> << >>]>>
    /\ workers = << >>
    /\ events = << >>
    /\ toolCalls = << >>
    /\ completions = << >>
    /\ accepted = << >>
    /\ lastCall = "none"
    /\ tick = FALSE

InitToggle ==
    /\ InitWindow
    /\ lock \in InitialLocks
    /\ pc = [p \in Pids |-> "off"]
    /\ old_pid = [p \in Pids |-> NoPid]
    /\ outcome = [p \in Pids |-> "none"]
    /\ killCalls = {}
    /\ sigterm = {}
    /\ readText = [p \in Pids |-> NoText]
    /\ log = << >>

\* the program is started: python sidebar.py
Launch(p) ==
    /\ UNCHANGED bridgeVars
    /\ pc[p] = "off"
    /\ pc' = [pc EXCEPT ![p] = "check"]
    /\ UNCHANGED <<lock, old_pid, outcome, killCalls, sigterm, readText, log>>

\* if os.path.exists(pidfile):
CheckExists(p) ==
    /\ UNCHANGED bridgeVars
    /\ pc[p] = "check"
    /\ pc' = [pc EXCEPT ![p] = IF lock # Absent THEN "read" ELSE "write"]
    /\ UNCHANGED <<lock, old_pid, outcome, killCalls, sigterm, readText, log>>

\* with open(pidfile, 'r') as f: old_pid = int(f.read().strip())
\* FileNotFoundError is an OSError; both OSError and ValueError skip the kill
ReadPid(p) ==
    /\ UNCHANGED bridgeVars
    /\ pc[p] = "read"
    /\ IF lock = Absent \/ RaisesValueError(lock)
       THEN /\ pc' = [pc EXCEPT ![p] = "remove"]
            /\ UNCHANGED old_pid
       ELSE /\ pc' = [pc EXCEPT ![p] = "kill"]
            /\ old_pid' = [old_pid EXCEPT ![p] = ParseInt(lock)]
    /\ readText' = [readText EXCEPT ![p] = lock]
    /\ UNCHANGED <<lock, outcome, killCalls, sigterm, log>>

\* os.kill whose OSError is not caught: the launcher ends at the failed call
KillOld_Uncaught(p) ==
    /\ UNCHANGED bridgeVars
    /\ pc[p] = "kill"
    /\ killCalls' = killCalls \cup {[caller |-> p, target |-> old_pid[p],
                                     delivered |-> Alive(old_pid[p])]}
    /\ sigterm' = IF Alive(old_pid[p]) THEN sigterm \cup {old_pid[p]} ELSE sigterm
    /\ pc' = [pc EXCEPT ![p] = IF Alive(old_pid[p]) THEN "remove" ELSE "exited"]
    /\ log' = IF Alive(old_pid[p]) THEN log
              ELSE Append(log, [pid |-> p, outcome |-> "Fault"])
    /\ UNCHANGED <<lock, old_pid, outcome, readText>>

\* os.kill(old_pid, signal.SIGTERM); ProcessLookupError is an OSError
KillOld(p) ==
    /\ UNCHANGED bridgeVars
    /\ pc[p] = "kill"
    /\ killCalls' = killCalls \cup {[caller |-> p, target |-> old_pid[p],
                                     delivered |-> Alive(old_pid[p])]}
    /\ sigterm' = IF Alive(old_pid[p]) THEN sigterm \cup {old_pid[p]} ELSE sigterm
    /\ pc' = [pc EXCEPT ![p] = "remove"]
    /\ UNCHANGED <<lock, old_pid, outcome, readText, log>>

\* a toggle-off that leaves the lock file where it is
RemoveOld_Skipped(p) ==
    /\ UNCHANGED bridgeVars
    /\ pc[p] = "remove"
    /\ pc' = [pc EXCEPT ![p] = "exit"]
    /\ UNCHANGED <<lock, old_pid, outcome, killCalls, sigterm, readText, log>>

\* try: os.remove(pidfile) except: pass
RemoveOld(p) ==
    /\ UNCHANGED bridgeVars
    /\ pc[p] = "remove"
    /\ lock' = Absent
    /\ pc' = [pc EXCEPT ![p] = "exit"]
    /\ UNCHANGED <<old_pid, outcome, killCalls, sigterm, readText, log>>

\* sys.exit(0)
ExitToggle(p) ==
    /\ UNCHANGED bridgeVars
    /\ pc[p] = "exit"
    /\ pc' = [pc EXCEPT ![p] = "exited"]
    /\ outcome' = [outcome EXCEPT ![p] = "ExitNow"]
    /\ sigterm' = sigterm \ {p}
    /\ log' = Append(log, [pid |-> p, outcome |-> "ExitNow"])
    /\ UNCHANGED <<lock, old_pid, killCalls, readText>>

\* with open(pidfile, 'w') as f: f.write(str(os.getpid()))
\* then the application, the window and the cleanup hook are created
WritePid(p) ==
    /\ UNCHANGED bridgeVars
    /\ pc[p] = "write"
    /\ lock' = FormatPid(p)
    /\ pc' = [pc EXCEPT ![p] = "running"]
    /\ outcome' = [outcome EXCEPT ![p] = "Proceed"]
    /\ log' = Append(log, [pid |-> p, outcome |-> "Proceed"])
    /\ UNCHANGED <<old_pid, killCalls, sigterm, readText>>

\* open(pidfile, 'r') raises an OSError (the file cannot be read): caught at
\* "except (OSError, ValueError)", no process id is read, no signal is sent
ReadDenied(p) ==
    /\ UNCHANGED bridgeVars
    /\ pc[p] = "read"
    /\ lock # Absent
    /\ pc' = [pc EXCEPT ![p] = "remove"]
    /\ UNCHANGED <<lock, old_pid, outcome, killCalls, sigterm, readText, log>>

\* os.remove(pidfile) raises an OSError (the file cannot be removed): caught
\* at the bare except, the file stays
RemoveDenied(p) ==
    /\ UNCHANGED bridgeVars
    /\ pc[p] = "remove"
    /\ lock # Absent
    /\ pc' = [pc EXCEPT ![p] = "exit"]
    /\ UNCHANGED <<lock, old_pid, outcome, killCalls, sigterm, readText, log>>

\* open(pidfile, 'w') raises an OSError (the file cannot be written): the
\* statement is in no try block, so the launch ends with the traceback
WriteDenied(p) ==
    /\ UNCHANGED bridgeVars
    /\ pc[p] = "write"
    /\ pc' = [pc EXCEPT ![p] = "exited"]
    /\ outcome' = [outcome EXCEPT ![p] = "Fault"]
    /\ sigterm' = sigterm \ {p}
    /\ log' = Append(log, [pid |-> p, outcome |-> "Fault"])
    /\ UNCHANGED <<lock, old_pid, killCalls, readText>>

\* keyPressEvent(Qt.Key_Escape) -> close_and_exit: the slide-out starts
KeyEscape(p) ==
    /\ UNCHANGED bridgeVars
    /\ pc[p] = "running"
    /\ pc' = [pc EXCEPT ![p] = "closing"]
    /\ UNCHANGED <<lock, old_pid, outcome, killCalls, sigterm, readText, log>>

\* a cleanup that is never connected to aboutToQuit
cleanup_NotRun(p) == lock

\* the lock file after cleanup(): try: os.remove(pidfile) except: pass
cleanup(p) == Absent

\* animation.finished -> QApplication.quit -> aboutToQuit -> cleanup, and
\* app.exec_() returns into sys.exit
AnimationFinished(p) ==
    /\ UNCHANGED bridgeVars
    /\ pc[p] = "closing"
    /\ lock' = cleanup(p)
    /\ pc' = [pc EXCEPT ![p] = "exited"]
    /\ sigterm' = sigterm \ {p}
    /\ UNCHANGED <<old_pid, outcome, killCalls, readText, log>>

\* a pending SIGTERM is delivered: no handler is installed, so the process
\* ends at once and runs no cleanup
DeliverSigterm(p) ==
    /\ UNCHANGED bridgeVars
    /\ p \in sigterm
    /\ Alive(p)
    /\ pc' = [pc EXCEPT ![p] = "killed"]
    /\ sigterm' = sigterm \ {p}
    /\ UNCHANGED <<lock, old_pid, outcome, killCalls, readText, log>>

(***************************************************************************)
(* The request bridge: ask_phi, LlamaWorker, handle_input, handle_response.*)
(***************************************************************************)
Ellipsis == <<".", ".", ".">>

\* a text of n characters that differ from place to place
LongText(n) == [i \in 1..n |-> IF i % 7 = 0 THEN "U+00E9"
                               ELSE IF i % 3 = 0 THEN "c"
                               ELSE IF i % 3 = 1 THEN "a" ELSE "b"]

\* what the user may have typed when a handler runs: short texts
ShortPrompts ==
    {<< >>, <<" ", "\t">>, <<" ", "h", "i", "\n">>, <<"a", " ", "b">>}

\* what the user may have typed when a handler runs: texts around the limit
LongPrompts ==
    {<<" ">>, LongText(PromptLimit + 1),
     <<" ">> \o LongText(PromptLimit) \o <<" ">>,
     <<" ", " ">> \o LongText(PromptLimit + 2)}

\* the fixed texts of ask_phi, each one token
EmptyPlaceholder == <<"Model returned empty response. Try rephrasing your question.">>

TimeoutPlaceholder == <<"Response took too long. The model might be loading - try again in a moment.">>

UnknownError == <<"Unknown error">>

ModelErrorPrefix == <<"Model error: ">>

ConnectErrorPrefix == <<"Error connecting to Ollama: ">>

DecodeErrorText == <<"'utf-8' codec can't decode byte">>

\* what subprocess.run(["ollama", "run", "llama3.2:1b"], timeout=45) can do:
\* return with an exit code, stdout and stderr; raise TimeoutExpired; raise
\* another exception (the tool is missing, permission denied)
ExtResult(kind, code, out, err, msg) ==
    [kind |-> kind, code |-> code, stdout |-> out, stderr |-> err, msg |-> msg]

\* one result of each kind: an answer, no answer, a model error, a timeout,
\* a failure to launch the tool
SomeResults ==
    {ExtResult("exit", 0, Encode(<<" ", "h", "U+00E9", "\n">>), Encode(<<"a">>), << >>),
     ExtResult("exit", 0, << >>, << >>, << >>),
     ExtResult("exit", 1, << >>, Encode(<<"a", "b", "\n">>), << >>),
     ExtResult("timeout", 0, << >>, << >>, << >>),
     ExtResult("error", 0, << >>, << >>, <<"a", "b", "c">>)}

OneResult == {ExtResult("exit", 0, Encode(<<"h", "i">>), << >>, << >>)}

ExtResults ==
    {ExtResult("exit", 0, Encode(<<"h", "i">>), << >>, << >>),
     ExtResult("exit", 0, Encode(<<" ", "h", "U+00E9", "\n">>), Encode(<<"a">>), << >>),
     ExtResult("exit", 0, << >>, << >>, << >>),
     ExtResult("exit", 0, Encode(<<" ", "\n">>), << >>, << >>),
     ExtResult("exit", 0, <<104, 195>>, << >>, << >>),
     ExtResult("exit", 1, << >>, Encode(<<"a", "b", "\n">>), << >>),
     ExtResult("exit", 1, Encode(<<"h">>), << >>, << >>),
     ExtResult("exit", 2, << >>, Encode(<<" ">>), << >>),
     ExtResult("exit", 1, << >>, Encode(<<"\n">> \o LongText(ErrorLimit + 1)), << >>),
     ExtResult("exit", 1, << >>, <<97, 195>>, << >>),
     ExtResult("timeout", 0, << >>, << >>, << >>),
     ExtResult("timeout", 0, Encode(<<"h">>), << >>, << >>),
     ExtResult("error", 0, << >>, << >>, <<"a", "b", "c">>),
     ExtResult("error", 0, << >>, << >>, LongText(ErrorLimit + 2))}

\* a truncation that forgets the marker
Truncate_NoMarker(prompt) == Take(prompt, PromptLimit)

\* ask_phi: if len(prompt) > 1000: prompt = prompt[:1000] + "..."
Truncate(prompt) ==
    IF Len(prompt) > PromptLimit THEN Take(prompt, PromptLimit) \o Ellipsis
    ELSE prompt

\* ask_phi: the bytes given to the tool on standard input
StdinOf(prompt) == Encode(Truncate(prompt))

\* an ask_phi that returns the decoded output without trimming it
Classify_NoStrip(ext) ==
    IF ext.kind = "timeout" THEN TimeoutPlaceholder
    ELSE IF ext.kind = "error"
    THEN ConnectErrorPrefix \o Take(ext.msg, ErrorLimit) \o Ellipsis
    ELSE IF ext.code = 0
    THEN IF RaisesDecodeError(ext.stdout)
         THEN ConnectErrorPrefix \o Take(DecodeErrorText, ErrorLimit) \o Ellipsis
         ELSE LET response == Decode(ext.stdout)
              IN  IF response # << >> THEN response ELSE EmptyPlaceholder
    ELSE IF ext.stderr # << >> /\ RaisesDecodeError(ext.stderr)
         THEN ConnectErrorPrefix \o Take(DecodeErrorText, ErrorLimit) \o Ellipsis
         ELSE LET error_msg == IF ext.stderr # << >>
                               THEN Strip(Decode(ext.stderr))
                               ELSE UnknownError
              IN  ModelErrorPrefix \o Take(error_msg, ErrorLimit) \o Ellipsis

\* an ask_phi that embeds the whole error text, however long
Classify_NoErrorLimit(ext) ==
    IF ext.kind = "timeout" THEN TimeoutPlaceholder
    ELSE IF ext.kind = "error"
    THEN ConnectErrorPrefix \o ext.msg \o Ellipsis
    ELSE IF ext.code = 0
    THEN IF RaisesDecodeError(ext.stdout)
         THEN ConnectErrorPrefix \o DecodeErrorText \o Ellipsis
         ELSE LET response == Strip(Decode(ext.stdout))
              IN  IF response # << >> THEN response ELSE EmptyPlaceholder
    ELSE IF ext.stderr # << >> /\ RaisesDecodeError(ext.stderr)
         THEN ConnectErrorPrefix \o DecodeErrorText \o Ellipsis
         ELSE LET error_msg == IF ext.stderr # << >>
                               THEN Strip(Decode(ext.stderr))
                               ELSE UnknownError
              IN  ModelErrorPrefix \o error_msg \o Ellipsis

\* ask_phi: the string returned for what the tool did
Classify(ext) ==
    IF ext.kind = "timeout" THEN TimeoutPlaceholder
    ELSE IF ext.kind = "error"
    THEN ConnectErrorPrefix \o Take(ext.msg, ErrorLimit) \o Ellipsis
    ELSE IF ext.code = 0
    THEN IF RaisesDecodeError(ext.stdout)
         THEN ConnectErrorPrefix \o Take(DecodeErrorText, ErrorLimit) \o Ellipsis
         ELSE LET response == Strip(Decode(ext.stdout))
              IN  IF response # << >> THEN response ELSE EmptyPlaceholder
    ELSE IF ext.stderr # << >> /\ RaisesDecodeError(ext.stderr)
         THEN ConnectErrorPrefix \o Take(DecodeErrorText, ErrorLimit) \o Ellipsis
         ELSE LET error_msg == IF ext.stderr # << >>
                               THEN Strip(Decode(ext.stderr))
                               ELSE UnknownError
              IN  ModelErrorPrefix \o Take(error_msg, ErrorLimit) \o Ellipsis

NoResponse == <<"NoResponse">>

\* LlamaWorker(query), connected to handle_response and started
NewWorker(query) ==
    [prompt |-> query, state |-> "started", connected |-> TRUE,
     response |-> NoResponse]

\* response_ready.disconnect() on the worker self.worker_thread refers to
Disconnected(ws, w) ==
    IF w = None THEN ws ELSE [ws EXCEPT ![w].connected = FALSE]

\* every handler call is a step of the UI thread, also when it changes nothing
Called(name) ==
    /\ lastCall' = name
    /\ tick' = ~tick

\* the user edits the input box
TypeText(t) ==
    /\ UNCHANGED toggleVars
    /\ t # input_box
    /\ input_box' = t
    /\ UNCHANGED <<processing, worker_thread, send_enabled, send_text, chat_area>>
    /\ UNCHANGED <<workers, events, toolCalls, completions, accepted, lastCall, tick>>

\* handle_input without "if self.processing: return"
Refused_NoBusyCheck(query) == query = << >>

\* handle_input without "if not query: return"
Refused_NoEmptyCheck(query) == processing

\* handle_input refuses: the query is empty, or a request is being processed
Refused(query) == query = << >> \/ processing

\* handle_input: the send button is clicked or return is pressed
handle_input ==
    /\ UNCHANGED toggleVars
    /\ Len(workers) < MaxRequests
    /\ LET query == Strip(input_box)
       IN  IF Refused(query)
           THEN /\ Called("handle_input: return")
                /\ UNCHANGED <<uiVars, workers, accepted>>
           ELSE /\ Called("handle_input: accepted")
                /\ chat_area' = chat_area \o <<[kind |-> "You", text |-> query],
                                               [kind |-> "Processing", text |-> << >>]>>
                /\ input_box' = << >>
                /\ send_enabled' = FALSE
                /\ send_text' = "..."
                /\ processing' = TRUE
                /\ workers' = Append(Disconnected(workers, worker_thread),
                                     NewWorker(query))
                /\ worker_thread' = Len(workers) + 1
                /\ accepted' = Append(accepted, input_box)
    /\ UNCHANGED <<events, toolCalls, completions>>

\* a worker whose thread ends at an exception of subprocess.run
WorkerAsk_Uncaught(w, ext) ==
    /\ UNCHANGED toggleVars
    /\ workers[w].state = "started"
    /\ toolCalls' = Append(toolCalls, [worker |-> w, stdin |-> StdinOf(workers[w].prompt),
                                      result |-> ext])
    /\ workers' = IF ext.kind \in {"timeout", "error"}
                  THEN [workers EXCEPT ![w].state = "finished"]
                  ELSE [workers EXCEPT ![w].state = "asked", ![w].response = Classify(ext)]
    /\ UNCHANGED <<uiVars, events, completions, accepted, lastCall, tick>>

\* a worker that calls the tool once more after a timeout
WorkerAsk_RetryOnTimeout(w, ext) ==
    /\ UNCHANGED toggleVars
    /\ workers[w].state = "started"
    /\ toolCalls' = Append(toolCalls, [worker |-> w, stdin |-> StdinOf(workers[w].prompt),
                                      result |-> ext])
    /\ workers' = IF ext.kind = "timeout" /\ \A k \in 1..Len(toolCalls) : toolCalls[k].worker # w
                  THEN workers
                  ELSE [workers EXCEPT ![w].state = "asked", ![w].response = Classify(ext)]
    /\ UNCHANGED <<uiVars, events, completions, accepted, lastCall, tick>>

\* LlamaWorker.run up to the return of ask_phi: one subprocess.run call
WorkerAsk(w, ext) ==
    /\ UNCHANGED toggleVars
    /\ workers[w].state = "started"
    /\ toolCalls' = Append(toolCalls, [worker |-> w, stdin |-> StdinOf(workers[w].prompt),
                                      result |-> ext])
    /\ workers' = [workers EXCEPT ![w].state = "asked", ![w].response = Classify(ext)]
    /\ UNCHANGED <<uiVars, events, completions, accepted, lastCall, tick>>

\* a worker that emits the response to the first prompt, not to its own
WorkerEmit_FirstResponse(w) ==
    /\ UNCHANGED toggleVars
    /\ workers[w].state = "asked"
    /\ workers' = [workers EXCEPT ![w].state = "finished",
                                  ![w].response = workers[1].response]
    /\ events' = IF workers[w].connected
                 THEN Append(events, [worker |-> w, response |-> workers[1].response])
                 ELSE events
    /\ UNCHANGED <<uiVars, toolCalls, completions, accepted, lastCall, tick>>

\* LlamaWorker.run: self.response_ready.emit(response); the connection to the
\* window crosses threads, so the call is queued for the UI thread
WorkerEmit(w) ==
    /\ UNCHANGED toggleVars
    /\ workers[w].state = "asked"
    /\ workers' = [workers EXCEPT ![w].state = "finished"]
    /\ events' = IF workers[w].connected
                 THEN Append(events, [worker |-> w, response |-> workers[w].response])
                 ELSE events
    /\ UNCHANGED <<uiVars, toolCalls, completions, accepted, lastCall, tick>>

\* the response_ready signal of a worker whose completion was handled reaches
\* the window once more while it is idle: the duplicate that the guard of
\* handle_response ("Prevent duplicate responses") is written for
StaleCompletion(w) ==
    /\ UNCHANGED toggleVars
    /\ ~processing
    /\ events = << >>
    /\ \E k \in 1..Len(completions) : completions[k].worker = w
    /\ events' = <<[worker |-> w, response |-> workers[w].response]>>
    /\ UNCHANGED <<uiVars, workers, toolCalls, completions, accepted, lastCall, tick>>

\* handle_response without "if not self.processing: return"
handle_response_NoGuard ==
    /\ UNCHANGED toggleVars
    /\ events # << >>
    /\ events' = Tail(events)
    /\ LET response == Head(events).response
       IN  /\ Called("handle_response: rendered")
           /\ processing' = FALSE
           /\ chat_area' = Append(SubSeq(chat_area, 1, Len(chat_area) - 1),
                                  [kind |-> "Assistant", text |-> response])
           /\ send_enabled' = TRUE
           /\ send_text' = "Send"
           /\ workers' = Disconnected(workers, worker_thread)
           /\ worker_thread' = None
           /\ completions' = Append(completions, Head(events))
           /\ UNCHANGED input_box
    /\ UNCHANGED <<toolCalls, accepted>>

\* handle_response without "self.worker_thread = None"
handle_response_KeepsWorker ==
    /\ UNCHANGED toggleVars
    /\ events # << >>
    /\ events' = Tail(events)
    /\ LET response == Head(events).response
       IN  IF ~processing
           THEN /\ Called("handle_response: return")
                /\ UNCHANGED <<uiVars, workers, completions>>
           ELSE /\ Called("handle_response: rendered")
                /\ processing' = FALSE
                /\ chat_area' = Append(SubSeq(chat_area, 1, Len(chat_area) - 1),
                                       [kind |-> "Assistant", text |-> response])
                /\ send_enabled' = TRUE
                /\ send_text' = "Send"
                /\ workers' = Disconnected(workers, worker_thread)
                /\ completions' = Append(completions, Head(events))
                /\ UNCHANGED <<input_box, worker_thread>>
    /\ UNCHANGED <<toolCalls, accepted>>

\* handle_response that leaves self.processing set after a timeout
handle_response_StuckAfterTimeout ==
    /\ UNCHANGED toggleVars
    /\ events # << >>
    /\ events' = Tail(events)
    /\ LET response == Head(events).response
       IN  IF ~processing
           THEN /\ Called("handle_response: return")
                /\ UNCHANGED <<uiVars, workers, completions>>
           ELSE /\ Called("handle_response: rendered")
                /\ processing' = (response = TimeoutPlaceholder)
                /\ chat_area' = Append(SubSeq(chat_area, 1, Len(chat_area) - 1),
                                       [kind |-> "Assistant", text |-> response])
                /\ send_enabled' = TRUE
                /\ send_text' = "Send"
                /\ workers' = Disconnected(workers, worker_thread)
                /\ worker_thread' = None
                /\ completions' = Append(completions, Head(events))
                /\ UNCHANGED input_box
    /\ UNCHANGED <<toolCalls, accepted>>

\* handle_response(response): the UI thread runs the queued call
handle_response ==
    /\ UNCHANGED toggleVars
    /\ events # << >>
    /\ events' = Tail(events)
    /\ LET response == Head(events).response
       IN  IF ~processing
           THEN /\ Called("handle_response: return")
                /\ UNCHANGED <<uiVars, workers, completions>>
           ELSE /\ Called("handle_response: rendered")
                /\ processing' = FALSE
                /\ chat_area' = Append(SubSeq(chat_area, 1, Len(chat_area) - 1),
                                       [kind |-> "Assistant", text |-> response])
                /\ send_enabled' = TRUE
                /\ send_text' = "Send"
                /\ workers' = Disconnected(workers, worker_thread)
                /\ worker_thread' = None
                /\ completions' = Append(completions, Head(events))
                /\ UNCHANGED input_box
    /\ UNCHANGED <<toolCalls, accepted>>

NextToggle ==
    \E p \in Pids :
        \/ Launch(p)
        \/ CheckExists(p)
        \/ ReadPid(p)
        \/ KillOld(p)
        \/ RemoveOld(p)
        \/ ExitToggle(p)
        \/ WritePid(p)
        \/ KeyEscape(p)
        \/ AnimationFinished(p)
        \/ DeliverSigterm(p)

SpecToggle == InitToggle /\ [][NextToggle]_vars

\* launches that do not overlap: the program is started only while no other
\* process is inside its startup block
NoStartupInProgress == \A q \in Pids : pc[q] \notin StartupPcs

NextSeq ==
    \E p \in Pids :
        \/ NoStartupInProgress /\ Launch(p)
        \/ CheckExists(p)
        \/ ReadPid(p)
        \/ KillOld(p)
        \/ RemoveOld(p)
        \/ ExitToggle(p)
        \/ WritePid(p)
        \/ KeyEscape(p)
        \/ AnimationFinished(p)
        \/ DeliverSigterm(p)

SpecSeq == InitToggle /\ [][NextSeq]_vars

\* no SIGTERM is waiting to be delivered
NoSignalPending == sigterm = {}

\* launches that do not overlap each other or the start of a shutdown, with
\* signals that take effect before anything else happens
NextOrderly ==
    \E p \in Pids :
        \/ NoStartupInProgress /\ NoSignalPending /\ Launch(p)
        \/ NoSignalPending /\ CheckExists(p)
        \/ NoSignalPending /\ ReadPid(p)
        \/ NoSignalPending /\ KillOld(p)
        \/ NoSignalPending /\ RemoveOld(p)
        \/ NoSignalPending /\ ExitToggle(p)
        \/ NoSignalPending /\ WritePid(p)
        \/ NoStartupInProgress /\ NoSignalPending /\ KeyEscape(p)
        \/ NoSignalPending /\ AnimationFinished(p)
        \/ DeliverSigterm(p)

SpecOrderly == InitToggle /\ [][NextOrderly]_vars

\* launches that do not overlap, on a lock file that may refuse to be read,
\* removed or written
NextDenied ==
    \E p \in Pids :
        \/ NoStartupInProgress /\ Launch(p)
        \/ CheckExists(p)
        \/ ReadPid(p)
        \/ ReadDenied(p)
        \/ KillOld(p)
        \/ RemoveOld(p)
        \/ RemoveDenied(p)
        \/ ExitToggle(p)
        \/ WritePid(p)
        \/ WriteDenied(p)
        \/ KeyEscape(p)
        \/ AnimationFinished(p)
        \/ DeliverSigterm(p)

SpecDenied == InitToggle /\ [][NextDenied]_vars

\* the window of the instance that was launched first and went on to run
ThePid == PidOf(1)

InitBridge ==
    /\ InitWindow
    /\ lock = FormatPid(ThePid)
    /\ pc = [p \in Pids |-> IF p = ThePid THEN "running" ELSE "off"]
    /\ old_pid = [p \in Pids |-> NoPid]
    /\ outcome = [p \in Pids |-> IF p = ThePid THEN "Proceed" ELSE "none"]
    /\ killCalls = {}
    /\ sigterm = {}
    /\ readText = [p \in Pids |-> NoText]
    /\ log = <<[pid |-> ThePid, outcome |-> "Proceed"]>>

\* the window at work: short prompts, every kind of result
NextBridge ==
    \/ \E t \in ShortPrompts : TypeText(t)
    \/ handle_input
    \/ \E w \in 1..Len(workers) : \E ext \in SomeResults : WorkerAsk(w, ext)
    \/ \E w \in 1..Len(workers) : WorkerEmit(w)
    \/ handle_response

SpecBridge == InitBridge /\ [][NextBridge]_vars

\* the worker thread runs on: subprocess.run returns or times out after 45 s
\* and run() then emits; the event loop of the window delivers queued calls
FairSpecBridge ==
    /\ SpecBridge
    /\ WF_vars(\E w \in 1..Len(workers) : \E ext \in SomeResults : WorkerAsk(w, ext))
    /\ WF_vars(\E w \in 1..Len(workers) : WorkerEmit(w))
    /\ WF_vars(handle_response)

\* the window at work: prompts around the length limit, one result
NextPrompt ==
    \/ \E t \in LongPrompts : TypeText(t)
    \/ handle_input
    \/ \E w \in 1..Len(workers) : \E ext \in OneResult : WorkerAsk(w, ext)
    \/ \E w \in 1..Len(workers) : WorkerEmit(w)
    \/ handle_response

SpecPrompt == InitBridge /\ [][NextPrompt]_vars

\* what the user may have typed when a handler runs: one plain question
PlainPrompts == {<<"h", "i", " ">>}

\* the window at work: one plain prompt, every result of the tool
NextResults ==
    \/ \E t \in PlainPrompts : TypeText(t)
    \/ Len(workers) < MaxClassified /\ handle_input
    \/ \E w \in 1..Len(workers) : \E ext \in ExtResults : WorkerAsk(w, ext)
    \/ \E w \in 1..Len(workers) : WorkerEmit(w)
    \/ handle_response

SpecResults == InitBridge /\ [][NextResults]_vars

\* the window at work when a completion can be delivered twice
NextStale ==
    \/ \E t \in PlainPrompts : TypeText(t)
    \/ handle_input
    \/ \E w \in 1..Len(workers) : \E ext \in SomeResults : WorkerAsk(w, ext)
    \/ \E w \in 1..Len(workers) : WorkerEmit(w)
    \/ \E w \in 1..Len(workers) : StaleCompletion(w)
    \/ handle_response

SpecStale == InitBridge /\ [][NextStale]_vars

(***************************************************************************)
(* Properties of the request bridge.                                       *)
(***************************************************************************)
\* the UI thread has just run the handler call that ended as `name`
HandlerRan(name) == tick' # tick /\ lastCall' = name

HandleInputRan == HandlerRan("handle_input: return") \/ HandlerRan("handle_input: accepted")

\* worker w was started and its completion has not been handled
InFlight(w) == \A k \in 1..Len(completions) : completions[k].worker # w

CallsOf(w) == {k \in 1..Len(toolCalls) : toolCalls[k].worker = w}

CompletionsOf(w) == {k \in 1..Len(completions) : completions[k].worker = w}

YouBlocks == {k \in 1..Len(chat_area) : chat_area[k].kind = "You"}

\* C1: at most one request is in flight. At most one started worker has a
\* completion that is not yet handled, there is one exactly while processing
\* is set, and no step starts a worker while processing is set.
C1_AtMostOneInFlight ==
    /\ [](/\ Cardinality({w \in 1..Len(workers) : InFlight(w)}) <= 1
          /\ processing <=> \E w \in 1..Len(workers) : InFlight(w)
          /\ Len(events) <= 1)
    /\ [][processing => workers' = workers \/ Len(workers') = Len(workers)]_vars

C1_Witness ==
    /\ processing
    /\ lastCall = "handle_input: return"
    /\ Strip(input_box) # << >>
    /\ Len(workers) = 1

\* C2: handle_input changes nothing when the text of the input box is empty
\* or whitespace only, or when processing is set: no worker, no tool call,
\* and the flag, the worker reference, the chat log and the send button stay.
C2_RefusedSubmitIsNoOp ==
    [][(HandleInputRan /\ (Strip(input_box) = << >> \/ processing))
       => /\ lastCall' = "handle_input: return"
          /\ UNCHANGED <<processing, worker_thread, chat_area, send_enabled, send_text>>
          /\ UNCHANGED <<workers, events, toolCalls, completions, accepted, input_box>>]_vars

C2_Witness ==
    /\ lastCall = "handle_input: return"
    /\ ~processing
    /\ input_box # << >>
    /\ Strip(input_box) = << >>

\* C3: every accepted prompt has exactly one worker, that worker calls the
\* tool at most once and exactly once when it has run (no retry after an
\* error or a timeout), at most one completion is rendered for it and one is
\* rendered in the end; a rendered completion belongs to an accepted prompt
\* whose worker has finished.
C3_OneWorkerOneCallOneCompletion ==
    /\ [](/\ Len(workers) = Len(accepted)
          /\ Cardinality(YouBlocks) = Len(accepted)
          /\ \A w \in 1..Len(workers) :
                /\ workers[w].prompt = Strip(accepted[w])
                /\ Cardinality(CallsOf(w)) = IF workers[w].state = "started" THEN 0 ELSE 1
                /\ Cardinality(CompletionsOf(w)) <= 1
          /\ \A k \in 1..Len(toolCalls) : toolCalls[k].worker \in 1..Len(workers)
          /\ \A k \in 1..Len(completions) :
                /\ completions[k].worker \in 1..Len(workers)
                /\ workers[completions[k].worker].state = "finished"
                /\ completions[k].response = workers[completions[k].worker].response)
    /\ \A w \in 1..MaxRequests :
          (Len(workers) >= w) ~> (Cardinality(CompletionsOf(w)) = 1)

C3_Witness ==
    /\ Len(completions) >= 2
    /\ \E k \in 1..Len(completions) : completions[k].response = TimeoutPlaceholder
    /\ Len(toolCalls) = Len(completions)

\* C4: a completion of any kind that is rendered leaves processing clear, the
\* worker released and the send button enabled; whenever every request is
\* completed the window is idle; and handle_input on an idle window with a
\* non-empty query sets processing and starts a worker.
C4_IdleAfterCompletion ==
    /\ [][HandlerRan("handle_response: rendered")
          => /\ ~processing' /\ worker_thread' = None /\ send_enabled'
             /\ Len(completions') = Len(completions) + 1]_vars
    /\ []((Len(completions) = Len(workers)) => (~processing /\ worker_thread = None))
    /\ [][(HandleInputRan /\ ~processing /\ Strip(input_box) # << >>)
          => /\ processing'
             /\ Len(workers') = Len(workers) + 1
             /\ worker_thread' = Len(workers')
             /\ workers'[Len(workers')].state = "started"
             /\ workers'[Len(workers')].connected]_vars

C4_Witness ==
    /\ Len(completions) = 1
    /\ completions[1].response = TimeoutPlaceholder
    /\ Len(workers) = 2
    /\ processing
    /\ worker_thread = 2

(***************************************************************************)
(* Properties of the pid-file toggle.                                      *)
(***************************************************************************)
\* process p has just left the step `at` of its startup block
Left(p, at) == pc[p] = at /\ pc'[p] # at

KillsBy(p) == {c \in killCalls : c.caller = p}

\* p read a process id from the lock file
ReadAPid(p) == old_pid[p] # NoPid

\* p read text from the lock file that is no process id
ReadNoNumber(p) == readText[p] \notin {NoText, Absent} /\ RaisesValueError(readText[p])

\* p signalled the process whose id it read, and the call succeeded
KilledLive(p) == \E c \in KillsBy(p) : c.delivered

\* p tried to signal the process whose id it read, and that process was dead
KillFailed(p) == \E c \in KillsBy(p) : ~c.delivered

\* C5: a launch whose existence check finds no lock file goes on to write
\* the file, makes no os.kill call, ends as Proceed, and the file then holds
\* the decimal digits of its own process id and nothing else.
C5_AbsentLockProceeds ==
    [][\A p \in Pids :
          /\ (Left(p, "check") /\ lock = Absent) => pc'[p] = "write"
          /\ Left(p, "write")
             => /\ pc'[p] = "running"
                /\ outcome'[p] = "Proceed"
                /\ lock' # Absent
                /\ \A i \in 1..Len(lock') : IsDigit(lock'[i])
                /\ DecimalValue(lock') = p
                /\ KillsBy(p)' = {}
                /\ sigterm' = sigterm /\ killCalls' = killCalls]_vars

C5_Witness ==
    \E p \in Pids :
        /\ pc[p] = "running"
        /\ outcome[p] = "Proceed"
        /\ readText[p] = NoText
        /\ DecimalValue(lock) = p
        /\ p >= 10
        /\ \A q \in Pids \ {p} : pc[q] = "off"

\* C6: a launch that reads a lock file whose text is no integer writes its
\* own process id and ends as Proceed.
C6_UnparseableLockProceeds ==
    \A p \in Pids :
        (ReadNoNumber(p) /\ pc[p] \notin StartupPcs) => outcome[p] = "Proceed"

\* C7: a launch that reads the process id of a live instance signals that
\* process and no other, removes the lock file, ends as ExitNow, never
\* writes its own process id and never has a window.
C7_LiveLockTogglesOff ==
    /\ [](\A p \in Pids :
            /\ ReadAPid(p) => /\ FormatPid(old_pid[p]) = Strip(readText[p])
                              /\ ~HasWindow(p)
                              /\ pc[p] # "write"
                              /\ outcome[p] # "Proceed"
                              /\ lock # FormatPid(p)
            /\ \A c \in KillsBy(p) : c.target = old_pid[p]
            /\ Cardinality(KillsBy(p)) <= 1
            /\ (KilledLive(p) /\ pc[p] \notin StartupPcs)
               => pc[p] = "exited" /\ outcome[p] = "ExitNow")
    /\ [][\A p \in Pids :
            /\ (Left(p, "kill") /\ Alive(old_pid[p]))
               => /\ pc'[p] = "remove"
                  /\ sigterm' = sigterm \cup {old_pid[p]}
                  /\ KilledLive(p)'
            /\ (Left(p, "remove") /\ KilledLive(p)) => lock' = Absent /\ pc'[p] = "exit"]_vars

C7_Witness ==
    \E p, q \in Pids :
        /\ [caller |-> p, target |-> q, delivered |-> TRUE] \in killCalls
        /\ q >= 10
        /\ pc[p] = "exited"
        /\ outcome[p] = "ExitNow"
        /\ pc[q] = "killed"
        /\ lock = Absent

\* C8: with launches that do not overlap, a launch whose os.kill fails
\* because the recorded process is dead still ends as ExitNow and leaves no
\* lock file, and the launch after it ends as Proceed.
C8_StaleLockTogglesOffOnce ==
    \A i \in 1..Len(log) :
        KillFailed(log[i].pid)
        => /\ log[i].outcome = "ExitNow"
           /\ ~KilledLive(log[i].pid)
           /\ (i = Len(log) /\ NoStartupInProgress) => lock = Absent
           /\ i < Len(log) => log[i + 1].outcome = "Proceed"

C8_Witness ==
    /\ Len(log) >= 2
    /\ KillFailed(log[1].pid)
    /\ old_pid[log[1].pid] = StalePid
    /\ log[1].outcome = "ExitNow"
    /\ log[2].outcome = "Proceed"
    /\ DecimalValue(lock) = log[2].pid

\* C9 as stated: the lock file holds the id of a launched process only
\* while that process is alive (so not after its normal shutdown either).
C9_LockOnlyWhileWriterAlive ==
    \A p \in Pids : (lock = FormatPid(p)) => Alive(p)

\* C9 as amended: the step that ends a normal shutdown leaves no lock file,
\* the record of an instance never exists after its normal shutdown, and the
\* record of an instance outlives it only when the instance was terminated
\* by the SIGTERM of a launch that has yet to remove the file.
C9_NoLockAfterNormalShutdown ==
    /\ [][\A p \in Pids : (pc[p] = "closing" /\ pc'[p] = "exited") => lock' = Absent]_vars
    /\ [](\A p \in Pids :
            /\ (pc[p] = "exited" /\ outcome[p] = "Proceed") => lock # FormatPid(p)
            /\ (lock = FormatPid(p) /\ ~Alive(p))
               => /\ pc[p] = "killed"
                  /\ \E q \in Pids : pc[q] = "remove" /\ old_pid[q] = p /\ KilledLive(q))

C9_Witness ==
    \E p \in Pids :
        /\ pc[p] = "exited"
        /\ outcome[p] = "Proceed"
        /\ killCalls = {}
        /\ lock = Absent
        /\ \A q \in Pids \ {p} : pc[q] = "off"

(***************************************************************************)
(* Properties of the prompt sent to the tool.                              *)
(***************************************************************************)
\* the text of the input box that was accepted for tool call k
TypedFor(k) == accepted[toolCalls[k].worker]

\* C10 as stated: for an accepted text of the input box longer than 1000
\* characters the tool gets the first 1000 characters of it and then "...".
C10_TruncatesTypedText ==
    \A k \in 1..Len(toolCalls) :
        Len(TypedFor(k)) > PromptLimit
        => toolCalls[k].stdin = Encode(Take(TypedFor(k), PromptLimit) \o Ellipsis)

\* C10 as amended: for an accepted text that is longer than 1000 characters
\* once its surrounding whitespace is stripped, the tool gets the first 1000
\* characters of the stripped text and then "...".
C10_TruncatesStrippedText ==
    \A k \in 1..Len(toolCalls) :
        Len(Strip(TypedFor(k))) > PromptLimit
        => toolCalls[k].stdin = Encode(Take(Strip(TypedFor(k)), PromptLimit) \o Ellipsis)

C10_Witness ==
    \E k \in 1..Len(toolCalls) :
        /\ Len(Strip(TypedFor(k))) > PromptLimit
        /\ TypedFor(k) # Strip(TypedFor(k))
        /\ Len(toolCalls[k].stdin) > PromptLimit + Len(Ellipsis)

(***************************************************************************)
(* Properties of the response made from what the tool did.                 *)
(***************************************************************************)
\* what the tool did when worker w called it
ResultOf(w) == toolCalls[CHOOSE k \in CallsOf(w) : TRUE].result

\* the tool returned with exit code 0
ExitZero(ext) == ext.kind = "exit" /\ ext.code = 0

\* the bytes of the whitespace characters
SpaceBytes == {9, 10, 32}

\* the text r is the bytes b without the whitespace around them
IsTrimmed(r, b) ==
    /\ r # << >>
    /\ ~IsSpace(r[1]) /\ ~IsSpace(r[Len(r)])
    /\ \E lo \in 1..Len(b) : \E hi \in lo..Len(b) :
          /\ SubSeq(b, lo, hi) = Encode(r)
          /\ \A i \in (1..(lo - 1)) \cup ((hi + 1)..Len(b)) : b[i] \in SpaceBytes

\* C11 as stated: for exit code 0 the response handled is the standard
\* output trimmed when the standard output is not empty, and the empty
\* placeholder when it is empty.
C11_ExitZeroTrimmedOrPlaceholder ==
    \A k \in 1..Len(completions) :
        LET ext == ResultOf(completions[k].worker)
            r == completions[k].response
        IN  ExitZero(ext)
            => IF ext.stdout # << >>
               THEN ~RaisesDecodeError(ext.stdout) /\ r = Strip(Decode(ext.stdout))
               ELSE r = EmptyPlaceholder

\* C11 as amended: for exit code 0 and a standard output that is UTF-8, the
\* response handled is the output trimmed when the trimmed output is not
\* empty, and the empty placeholder when the output is empty or whitespace
\* only; for a standard output that is no UTF-8 it is the connection error
\* message with the description of the decoding error.
C11_ExitZeroTrimmedOrPlaceholderOrDecodeError ==
    \A k \in 1..Len(completions) :
        LET ext == ResultOf(completions[k].worker)
            r == completions[k].response
        IN  ExitZero(ext)
            => IF RaisesDecodeError(ext.stdout)
               THEN r = ConnectErrorPrefix \o DecodeErrorText \o Ellipsis
               ELSE IF \A i \in 1..Len(ext.stdout) : ext.stdout[i] \in SpaceBytes
               THEN r = EmptyPlaceholder
               ELSE IsTrimmed(r, ext.stdout)

C11_Witness ==
    /\ \E k \in 1..Len(completions) :
          /\ ExitZero(ResultOf(completions[k].worker))
          /\ ResultOf(completions[k].worker).stdout = Encode(<<" ", "\n">>)
          /\ completions[k].response = EmptyPlaceholder
    /\ chat_area[Len(chat_area)] = [kind |-> "Assistant", text |-> EmptyPlaceholder]

\* the tool returned with an exit code other than 0
ExitNonZero(ext) == ext.kind = "exit" /\ ext.code # 0

\* the text t occurs in the text r
Embeds(r, t) == \E i \in 1..(Len(r) - Len(t) + 1) : SubSeq(r, i, i + Len(t) - 1) = t

\* C12 as stated: for an exit code other than 0 the response handled is the
\* model error message with the first 200 characters of the standard error
\* in it, or with "Unknown error" when the standard error is empty.
C12_NonZeroEmbedsStderr ==
    \A k \in 1..Len(completions) :
        LET ext == ResultOf(completions[k].worker)
            r == completions[k].response
        IN  ExitNonZero(ext)
            => /\ r[1] = ModelErrorPrefix[1]
               /\ IF ext.stderr = << >>
                  THEN Embeds(r, UnknownError)
                  ELSE /\ ~RaisesDecodeError(ext.stderr)
                       /\ Embeds(r, Take(Decode(ext.stderr), ErrorLimit))

\* C12 as amended: for an exit code other than 0 the response handled is
\* the model error message with "Unknown error" when the standard error has
\* no bytes, the model error message with the first 200 characters of the
\* trimmed standard error (none for whitespace only) when it is UTF-8, and
\* the connection error message with the decoding error otherwise.
C12_NonZeroEmbedsTrimmedStderr ==
    \A k \in 1..Len(completions) :
        LET ext == ResultOf(completions[k].worker)
            r == completions[k].response
        IN  ExitNonZero(ext)
            => IF ext.stderr = << >>
               THEN r = ModelErrorPrefix \o UnknownError \o Ellipsis
               ELSE IF RaisesDecodeError(ext.stderr)
               THEN r = ConnectErrorPrefix \o DecodeErrorText \o Ellipsis
               ELSE LET trimmed == Strip(Decode(ext.stderr))
                    IN  /\ r = ModelErrorPrefix \o Take(trimmed, ErrorLimit) \o Ellipsis
                        /\ Len(r) <= Len(ModelErrorPrefix) + ErrorLimit + Len(Ellipsis)
                        /\ ~Embeds(r, UnknownError)

C12_Witness ==
    \E k \in 1..Len(completions) :
        LET ext == ResultOf(completions[k].worker)
        IN  /\ ExitNonZero(ext)
            /\ ~RaisesDecodeError(ext.stderr)
            /\ Len(Strip(Decode(ext.stderr))) > ErrorLimit
            /\ Decode(ext.stderr)[1] = "\n"
            /\ Len(completions[k].response) = Len(ModelErrorPrefix) + ErrorLimit + Len(Ellipsis)

\* the call of the tool failed: it timed out or could not be made
CallFailed(ext) == ext.kind \in {"timeout", "error"}

\* the response of worker w is queued for the UI thread or was handled by it
Emitted(w) ==
    \/ \E k \in 1..Len(events) : events[k].worker = w
    \/ CompletionsOf(w) # {}

\* C13: a worker whose call of the tool failed has a response string: the
\* timeout placeholder alone after a timeout, whatever output there was,
\* and the connection error message with the first 200 characters of the
\* description after another failure; a worker that has ended has emitted
\* its response, and the UI thread is handed that string.
C13_FailuresBecomeResponses ==
    /\ \A w \in 1..Len(workers) :
          /\ workers[w].state \in {"started", "asked", "finished"}
          /\ workers[w].state = "finished" => Emitted(w)
          /\ (workers[w].state # "started" /\ CallFailed(ResultOf(w)))
             => LET ext == ResultOf(w)
                    r == workers[w].response
                IN  /\ r # NoResponse
                    /\ ext.kind = "timeout" => r = TimeoutPlaceholder
                    /\ ext.kind = "error"
                       => /\ r = ConnectErrorPrefix \o Take(ext.msg, ErrorLimit) \o Ellipsis
                          /\ Len(r) <= Len(ConnectErrorPrefix) + ErrorLimit + Len(Ellipsis)
    /\ \A k \in 1..Len(completions) :
          completions[k].response = workers[completions[k].worker].response

C13_Witness ==
    \E k \in 1..Len(completions) :
        LET ext == ResultOf(completions[k].worker)
        IN  /\ ext.kind = "timeout"
            /\ ext.stdout # << >>
            /\ completions[k].response = TimeoutPlaceholder
            /\ chat_area[Len(chat_area)] = [kind |-> "Assistant", text |-> TimeoutPlaceholder]

(***************************************************************************)
(* Properties of the completion handler.                                   *)
(***************************************************************************)
HandleResponseRan ==
    HandlerRan("handle_response: return") \/ HandlerRan("handle_response: rendered")

AssistantBlocks == {k \in 1..Len(chat_area) : chat_area[k].kind = "Assistant"}

\* C14: handle_response called while processing is clear returns at once
\* and leaves the flag, the worker reference, the chat log and the send
\* button as they were; called while processing is set it clears the flag
\* and puts the response in the chat log once, in place of the processing
\* indicator.
C14_StaleCompletionDropped ==
    /\ [][(HandleResponseRan /\ ~processing)
          => /\ lastCall' = "handle_response: return"
             /\ UNCHANGED <<processing, worker_thread, chat_area, send_enabled, send_text>>
             /\ UNCHANGED <<input_box, workers, toolCalls, completions, accepted>>]_vars
    /\ [][(HandleResponseRan /\ processing)
          => /\ lastCall' = "handle_response: rendered"
             /\ ~processing'
             /\ Len(chat_area') = Len(chat_area)
             /\ chat_area[Len(chat_area)].kind = "Processing"
             /\ chat_area'[Len(chat_area)] =
                   [kind |-> "Assistant", text |-> Head(events).response]
             /\ Cardinality(AssistantBlocks') = Cardinality(AssistantBlocks) + 1
             /\ completions' = Append(completions, Head(events))]_vars
    /\ [][~HandleResponseRan => AssistantBlocks' = AssistantBlocks]_vars

C14_Witness ==
    /\ lastCall = "handle_response: return"
    /\ ~processing
    /\ worker_thread = None
    /\ Len(completions) >= 1
    /\ Cardinality(AssistantBlocks) = Len(completions)

\* C15: the k-th response rendered comes from the worker of the k-th
\* accepted prompt and is ask_phi's string for what the tool did with that
\* prompt, the chat log shows it right after the k-th question, and the
\* response rendered by a step belongs to the prompt accepted last.
C15_ResponsesInAcceptanceOrder ==
    /\ [](\A k \in 1..Len(completions) :
            /\ completions[k].worker = k
            /\ k <= Len(accepted)
            /\ toolCalls[k].worker = k
            /\ toolCalls[k].stdin = Encode(Truncate(Strip(accepted[k])))
            /\ completions[k].response = Classify(toolCalls[k].result)
            /\ chat_area[2 * k] = [kind |-> "You", text |-> Strip(accepted[k])]
            /\ chat_area[2 * k + 1] = [kind |-> "Assistant", text |-> completions[k].response])
    /\ [][HandlerRan("handle_response: rendered")
          => /\ Head(events).worker = Len(accepted)
             /\ Len(completions') = Len(accepted)]_vars

C15_Witness ==
    /\ Len(completions) = 2
    /\ completions[1].response = TimeoutPlaceholder
    /\ completions[2].response = <<"h", "U+00E9">>
    /\ Strip(accepted[1]) # Strip(accepted[2])
    /\ Len(chat_area) = 5

(***************************************************************************)
(* Properties of launches that overlap.                                    *)
(***************************************************************************)
\* p wrote its process id, has a window and has not been signalled
Unsignalled(p) == HasWindow(p) /\ outcome[p] = "Proceed" /\ p \notin sigterm

\* C16: whatever the interleaving of the startup steps, an instance writes
\* the lock file only after the older instance was signalled to terminate,
\* so no two instances that ended as Proceed run side by side unsignalled.
C16_NoTwoProceed ==
    \A p, q \in Pids : (Unsignalled(p) /\ Unsignalled(q)) => p = q

(***************************************************************************)
(* Properties of a lock file that refuses an operation.                    *)
(***************************************************************************)
\* C17: whatever the lock file does (absent, unreadable, unparseable,
\* stale, gone before the read, not writable), a launch that has left its
\* startup block ended as Proceed or as ExitNow, never with a fault.
C17_NoLockConditionAborts ==
    /\ \A i \in 1..Len(log) : log[i].outcome \in {"Proceed", "ExitNow"}
    /\ \A p \in Pids : pc[p] \notin ({"off"} \cup StartupPcs)
                         => outcome[p] \in {"Proceed", "ExitNow"}

(***************************************************************************)
(* Properties of the state of the window between handlers.                 *)
(***************************************************************************)
\* C18: between handler calls processing is set exactly when worker_thread
\* refers to a worker and exactly when the send button is disabled; so when
\* handle_input accepts a prompt there is no worker attached, and the
\* clean-up of a previous thread disconnects nothing.
C18_FlagWorkerButtonAgree ==
    /\ [](/\ processing <=> worker_thread # None
          /\ processing <=> ~send_enabled
          /\ send_enabled <=> send_text = "Send"
          /\ worker_thread # None => worker_thread = Len(workers))
    /\ [][HandlerRan("handle_input: accepted")
          => /\ worker_thread = None
             /\ Disconnected(workers, worker_thread) = workers
             /\ SubSeq(workers', 1, Len(workers)) = workers]_vars

C18_Witness ==
    /\ lastCall = "handle_input: accepted"
    /\ Len(completions) = 1
    /\ processing
    /\ worker_thread = 2
    /\ ~send_enabled
    /\ ~workers[1].connected

(***************************************************************************)
(* Properties of launches that do not overlap.                             *)
(***************************************************************************)
\* no launch is inside its startup block and no signal is on its way
Quiet == NoStartupInProgress /\ NoSignalPending

Windows == {p \in Pids : HasWindow(p)}

\* C19 as stated: successive launches end as Proceed and ExitNow in turn,
\* at most one window instance is alive, and between launches (from the
\* end of the first one) the lock file exists exactly when an instance is
\* alive and then holds its process id.
C19_StrictAlternation ==
    /\ \A i \in 1..(Len(log) - 1) : log[i].outcome # log[i + 1].outcome
    /\ Cardinality(Windows) <= 1
    /\ (Quiet /\ log # << >>) => /\ lock # Absent <=> Windows # {}
                                 /\ \A p \in Windows : lock = FormatPid(p)

\* C19 as amended: at most one window instance is alive; between launches
\* an alive instance has its process id in the lock file, and once a launch
\* has ended the file exists only while an instance is alive; ExitNow is
\* always followed by Proceed, and Proceed is followed by Proceed only when
\* the instance shut down by itself and was never signalled.
C19_AlternationUnlessShutDown ==
    /\ \A i \in 1..(Len(log) - 1) :
          /\ log[i].outcome = "ExitNow" => log[i + 1].outcome = "Proceed"
          /\ (log[i].outcome = "Proceed" /\ log[i + 1].outcome = "Proceed")
             => /\ pc[log[i].pid] = "exited"
                /\ log[i].pid \notin {c.target : c \in killCalls}
          /\ (log[i].outcome = "Proceed" /\ log[i + 1].outcome = "ExitNow")
             => pc[log[i].pid] \in {"killed", "exited"}
    /\ Cardinality(Windows) <= 1
    /\ Quiet => /\ \A p \in Windows : lock = FormatPid(p)
                /\ log # << >> => (lock # Absent <=> Windows # {})

C19_Witness ==
    /\ Len(log) = 3
    /\ log[1].outcome = "Proceed"
    /\ log[2].outcome = "Proceed"
    /\ log[3].outcome = "ExitNow"
    /\ pc[log[1].pid] = "exited"
    /\ pc[log[2].pid] = "killed"
    /\ Quiet
    /\ lock = Absent

(***************************************************************************)
(* Properties of the cleanup at shutdown.                                  *)
(***************************************************************************)
\* the shutdown of p has just run cleanup and the lock file is gone with it
CleanupRemoved(p) ==
    /\ pc[p] = "closing" /\ pc'[p] = "exited"
    /\ lock # Absent /\ lock' = Absent

\* C20: the cleanup of an instance removes the lock file only when the
\* file holds that instance's own process id, never the record written by
\* another instance that is alive.
C20_CleanupRemovesOwnRecordOnly ==
    [][\A p \in Pids :
          CleanupRemoved(p)
          => /\ lock = FormatPid(p)
             /\ \A q \in Pids \ {p} : ~(Alive(q) /\ lock = FormatPid(q))]_vars

====
